---- MODULE Spec2Model ----
(***************************************************************************)
(* A model of the core of arthur-redshift-etl:                             *)
(*   - etl/relation.py: order_by_dependencies and set_required_relations   *)
(*   - etl/extract/extractor.py: extract_source, extract_sources and       *)
(*     write_manifest_file                                                 *)
(*   - etl/extract/sqoop.py: SqoopExtractor.extract_table                  *)
(*                                                                         *)
(* Identifiers "<schema>.<table>" are modelled as pairs <<schema, table>>, *)
(* so that str.startswith('pg_catalog') is a test of the leading segment *)
(* and source_name (the schema of the target table) is the first field.  *)
(***************************************************************************)
EXTENDS Integers, Sequences, FiniteSets, TLC

(***************************************************************************)
(* Bounds of the model.                                                    *)
(***************************************************************************)
\* largest number of relation descriptions handed to order_by_dependencies
MaxRel == 4
\* largest total number of declared dependencies (depends_on entries) in one input
MaxEdges == 2

\* largest number of relations handed to an Extractor
MaxExtract == 3

\* largest number of columns in a table design
MaxColumns == 3
\* largest number of relations whose lazily loaded fields are followed
MaxDescribed == 1

VARIABLES
    descriptions,    \* relation.py: the list of RelationDescription given as input
    is_required,     \* relation.py: RelationDescription._is_required, per input position
    ordering,        \* outcome of the last order_by_dependencies call
    selection,       \* outcome of the last set_required_relations call
    keep_going,      \* extractor.py: Extractor.keep_going
    failed_sources,  \* extractor.py: Extractor.failed_sources
    tasks,           \* extractor.py: the futures of extract_sources, one per relation group
    extraction,      \* extractor.py: where the caller of extract_sources stands
    dry_run,         \* extractor.py: Extractor.dry_run
    store,           \* the keys of the objects in the bucket of the relation
    manifest,        \* the documents (none or one) at the relation's manifest_file_name
    local,           \* sqoop.py: the scratch directory and the side files in it
    table_call,      \* sqoop.py: where a call of SqoopExtractor.extract_table stands
    design_files,    \* the columns that the design file of each relation lists
    sql_files,       \* the content of the SQL file of each relation, if it has one
    table_design,    \* relation.py: RelationDescription._table_design, per input position
    query_stmt,      \* relation.py: RelationDescription._query_stmt, per input position
    field_call       \* outcome of the last access to a lazily loaded field

relationVars == <<descriptions, is_required, ordering, selection>>
extractVars == <<keep_going, failed_sources, tasks, extraction>>
tableVars == <<dry_run, store, manifest, local, table_call>>
fieldVars == <<design_files, sql_files, table_design, query_stmt, field_call>>
vars == <<relationVars, extractVars, tableVars, fieldVars>>

(***************************************************************************)
(* Identifiers.                                                            *)
(***************************************************************************)
PgCatalogPrefix == "pg_catalog"
WarehouseSchema == "www"

\* the identifier of the i-th discovered relation
Rel(i) == <<WarehouseSchema, i>>
\* an identifier of a relation that is not part of any input
UnknownId == <<"ext", 0>>
\* an identifier living in the system catalog
CatalogId == <<PgCatalogPrefix, 0>>

\* d.startswith('pg_catalog')
StartsWithPgCatalog(d) == d[1] = PgCatalogPrefix

\* everything a table design of an input of n relations may list under depends_on
DependsOnUniverse(n) == {Rel(i) : i \in 1..n} \cup {UnknownId, CatalogId}

(***************************************************************************)
(* RelationDescription                                                     *)
(***************************************************************************)
None == "None"

\* RelationDescription.identifier and RelationDescription.dependencies
RelationDescription(i, depends_on) == [identifier |-> Rel(i), dependencies |-> depends_on]

\* all inputs made of the first n of N relations whose table designs declare at most
\* `budget` dependencies in total; the i-th description of the list is Rel(i)
RECURSIVE Inputs(_, _, _)
Inputs(N, n, budget) ==
    IF n = 0 THEN {<<>>}
    ELSE UNION { { Append(s, RelationDescription(n, d)) :
                        s \in Inputs(N, n - 1, budget - k),
                        d \in {x \in SUBSET DependsOnUniverse(N) : Cardinality(x) = k} } :
                 k \in 0..budget }

\* RelationDescription.is_required: reading it while _is_required is None raises
RuntimeErrorKind == "RuntimeError"
\* the property handing out _is_required without the test for None
IsRequiredPropertyUnchecked(value) == value

IsRequiredProperty(value) == IF value = None THEN RuntimeErrorKind ELSE value

(***************************************************************************)
(* order_by_dependencies                                                   *)
(***************************************************************************)
Max(S) == CHOOSE x \in S : \A y \in S : y <= x

\* position of the description with the given identifier (table_map)
TableMap(ds, identifier) == CHOOSE i \in 1..Len(ds) : ds[i].identifier = identifier

KnownTables(ds) == {ds[i].identifier : i \in 1..Len(ds)}

PgInternalDependencies(description) == {d \in description.dependencies : StartsWithPgCatalog(d)}

Unknowns(ds, description) ==
    (description.dependencies \ KnownTables(ds)) \ PgInternalDependencies(description)

KnownUnknowns(ds) == UNION {Unknowns(ds, ds[i]) : i \in 1..Len(ds)}

HasInternalDependencies(ds) ==
    {ds[i].identifier : i \in {j \in 1..Len(ds) : PgInternalDependencies(ds[j]) # {}}}

HasNoInternalDependencies(ds) ==
    (KnownTables(ds) \ KnownUnknowns(ds)) \ HasInternalDependencies(ds)

\* the working dependencies without the edges that pg_catalog dependencies add
WorkingDependenciesCatalogDropped(ds, i) ==
    (ds[i].dependencies \ Unknowns(ds, ds[i])) \ PgInternalDependencies(ds[i])

\* the working dependencies with an unknown dependency treated like one on pg_catalog
WorkingDependenciesUnknownAsInternal(ds, i) ==
    LET declared == ds[i].dependencies
        kept == (declared \ Unknowns(ds, ds[i])) \ PgInternalDependencies(ds[i])
    IN  IF ds[i].identifier \in HasInternalDependencies(ds) \/ Unknowns(ds, ds[i]) # {}
        THEN kept \cup (HasNoInternalDependencies(ds) \ {ds[i].identifier})
        ELSE kept

\* Phase 1: the working dependencies of the i-th SortableRelationDescription
WorkingDependencies(ds, i) ==
    LET declared == ds[i].dependencies
        kept == (declared \ Unknowns(ds, ds[i])) \ PgInternalDependencies(ds[i])
    IN  IF ds[i].identifier \in HasInternalDependencies(ds)
        THEN kept \cup HasNoInternalDependencies(ds)
        ELSE kept

\* Phase 1: queue.put((1, initial_order, description)) for every description
InitialQueue(ds) == {<<1, i>> : i \in 1..Len(ds)}

\* PriorityQueue.get() breaking ties of priority towards the later relation
QueueGetLastTie(queue) ==
    CHOOSE e \in queue : \A f \in queue : e[1] < f[1] \/ (e[1] = f[1] /\ e[2] >= f[2])

\* PriorityQueue.get(): the smallest (priority, tie_breaker) tuple
QueueGet(queue) ==
    CHOOSE e \in queue : \A f \in queue : e[1] < f[1] \/ (e[1] = f[1] /\ e[2] <= f[2])

\* a threshold growing with the square of the number of tables
CycleThresholdSquared(nr_tables) == 2 * nr_tables * nr_tables

\* a threshold of half the number of tables
CycleThresholdHalved(nr_tables) == nr_tables \div 2

\* the threshold beyond which a cycle is suspected
CycleThreshold(nr_tables) == 2 * nr_tables

\* Phase 2: the loop over the priority queue; order[i] = 0 stands for order = None.
\* Phase2 is the loop test, Resolve the body for the popped tuple (minimum, tie_breaker)
\* with others = the orders of the dependencies of the popped description.
RECURSIVE Phase2(_, _, _, _, _, _)
RECURSIVE Resolve(_, _, _, _, _, _, _, _, _)
\* Resolve with all(others) weakened to any(others): a relation is ordered as soon as
\* one of its dependencies is
ResolveAnyAssigned(ds, deps, queue, order, latest, pops, minimum, tie_breaker, others) ==
    IF minimum > CycleThreshold(Cardinality(KnownTables(ds)))
    THEN [raised |-> TRUE, order |-> order, pops |-> pops]
    ELSE IF others = {}
    THEN Phase2(ds, deps, queue, [order EXCEPT ![tie_breaker] = latest + 1],
                latest + 1, pops)
    ELSE IF others # {0}
    THEN Phase2(ds, deps, queue,
                [order EXCEPT ![tie_breaker] = Max(others \cup {latest}) + 1],
                Max(others \cup {latest}) + 1, pops)
    ELSE Phase2(ds, deps, queue \cup {<<Max({latest, minimum}) + 1, tie_breaker>>},
                order, latest, pops)

\* Resolve leaving the loop instead of raising once the threshold is passed
ResolveBreakOnCycle(ds, deps, queue, order, latest, pops, minimum, tie_breaker, others) ==
    IF minimum > CycleThreshold(Cardinality(KnownTables(ds)))
    THEN [raised |-> FALSE, order |-> order, pops |-> pops]
    ELSE IF others = {}
    THEN Phase2(ds, deps, queue, [order EXCEPT ![tie_breaker] = latest + 1],
                latest + 1, pops)
    ELSE IF 0 \notin others
    THEN Phase2(ds, deps, queue,
                [order EXCEPT ![tie_breaker] = Max(others \cup {latest}) + 1],
                Max(others \cup {latest}) + 1, pops)
    ELSE IF others # {0}
    THEN Phase2(ds, deps,
                queue \cup {<<Max((others \ {0}) \cup {latest, minimum}) + 1, tie_breaker>>},
                order, latest, pops)
    ELSE Phase2(ds, deps, queue \cup {<<Max({latest, minimum}) + 1, tie_breaker>>},
                order, latest, pops)

Resolve(ds, deps, queue, order, latest, pops, minimum, tie_breaker, others) ==
    IF minimum > CycleThreshold(Cardinality(KnownTables(ds)))
    THEN [raised |-> TRUE, order |-> order, pops |-> pops]
    ELSE IF others = {}
    THEN Phase2(ds, deps, queue, [order EXCEPT ![tie_breaker] = latest + 1],
                latest + 1, pops)
    ELSE IF 0 \notin others
    THEN Phase2(ds, deps, queue,
                [order EXCEPT ![tie_breaker] = Max(others \cup {latest}) + 1],
                Max(others \cup {latest}) + 1, pops)
    ELSE IF others # {0}
    THEN Phase2(ds, deps,
                queue \cup {<<Max((others \ {0}) \cup {latest, minimum}) + 1, tie_breaker>>},
                order, latest, pops)
    ELSE Phase2(ds, deps, queue \cup {<<Max({latest, minimum}) + 1, tie_breaker>>},
                order, latest, pops)

Pop(ds, deps, queue, order, latest, pops, e) ==
    Resolve(ds, deps, queue \ {e}, order, latest, pops + 1, e[1], e[2],
            {order[TableMap(ds, dep)] : dep \in deps[e[2]]})

Phase2(ds, deps, queue, order, latest, pops) ==
    IF queue = {}
    THEN [raised |-> FALSE, order |-> order, pops |-> pops]
    ELSE Pop(ds, deps, queue, order, latest, pops, QueueGet(queue))

RECURSIVE SortedByOrder(_, _)
\* sorted(descriptions, key=attrgetter("order")): positions by ascending order
SortedByOrder(order, left) ==
    IF left = {} THEN <<>>
    ELSE LET first == CHOOSE i \in left :
                          \A j \in left : order[i] < order[j] \/ (order[i] = order[j] /\ i <= j)
         IN  <<first>> \o SortedByOrder(order, left \ {first})

CyclicDependencyError == "CyclicDependencyError"

\* the return statement slicing the first element off the sorted list
OrderingResultSliced(ds, run) ==
    IF run.raised
    THEN [raised |-> CyclicDependencyError, result |-> <<>>, pops |-> run.pops]
    ELSE [raised |-> None,
          result |-> IF Len(ds) = 0 THEN <<>> ELSE Tail(SortedByOrder(run.order, 1..Len(ds))),
          pops |-> run.pops]

\* the return statement: the positions of the input sorted by order, or the error
OrderingResult(ds, run) ==
    IF run.raised
    THEN [raised |-> CyclicDependencyError, result |-> <<>>, pops |-> run.pops]
    ELSE [raised |-> None, result |-> SortedByOrder(run.order, 1..Len(ds)),
          pops |-> run.pops]

\* order_by_dependencies(relation_descriptions): the positions of the input in execution
\* order, or CyclicDependencyError
OrderByDependencies(ds) ==
    OrderingResult(ds, Phase2(ds, [i \in 1..Len(ds) |-> WorkingDependencies(ds, i)],
                              InitialQueue(ds), [i \in 1..Len(ds) |-> 0], 0, 0))

(***************************************************************************)
(* set_required_relations                                                  *)
(***************************************************************************)
\* required_selector.match(d.target_table_name): a selector is the set of identifiers
\* it matches
SelectorMatch(selector, description) == description.identifier \in selector

\* the walk over ordered_descriptions[::-1]; `required` is the growing list
\* required_relations (positions of the input)
RECURSIVE ExpandRequired(_, _, _)
ExpandRequired(ds, reversed, required) ==
    IF reversed = <<>> THEN required
    ELSE LET description == Head(reversed)
         IN  IF \E k \in 1..Len(required) :
                    ds[description].identifier \in ds[required[k]].dependencies
             THEN ExpandRequired(ds, Tail(reversed), Append(required, description))
             ELSE ExpandRequired(ds, Tail(reversed), required)

\* the walk taken in dependency order instead of reverse dependency order
ReverseForgotten(s) == s

\* ordered_descriptions[::-1]
Reverse(s) ==
    [i \in 1..Len(s) |-> s[Len(s) + 1 - i]]

\* required_relations after the walk, given the ordered descriptions
RequiredRelations(ds, ordered_descriptions, selector) ==
    LET matched(i) == SelectorMatch(selector, ds[i])
    IN  ExpandRequired(ds, Reverse(ordered_descriptions),
                       SelectSeq(ordered_descriptions, matched))

\* the closing loops without the first one: nothing is reset to False
MarkRequiredOnly(ds, ordered_descriptions, required_relations, before) ==
    [i \in 1..Len(ds) |->
        IF \E k \in 1..Len(required_relations) : required_relations[k] = i THEN "True"
        ELSE before[i]]

\* the two closing loops: every ordered relation False, then every required one True
MarkRequired(ds, ordered_descriptions, required_relations, before) ==
    [i \in 1..Len(ds) |->
        IF \E k \in 1..Len(required_relations) : required_relations[k] = i THEN "True"
        ELSE IF \E k \in 1..Len(ordered_descriptions) : ordered_descriptions[k] = i THEN "False"
        ELSE before[i]]

(***************************************************************************)
(* The lazily loaded fields of a RelationDescription: table_design and     *)
(* query_stmt, and get_columns_with_casts which reads the table design.    *)
(* An optional value is the set of its values: {} stands for None or for a *)
(* key that a dictionary does not hold.                                    *)
(***************************************************************************)
\* dict.get(key, default), given the set of values found under the key
Get(values, default) == IF values = {} THEN default ELSE CHOOSE v \in values : TRUE

\* the truth value of column.get("expression"): None and "" are false
HasExpression(column) == column.expression # {} /\ Get(column.expression, <<>>) # <<>>

\* a test of column.get("skipped", False) that takes every column as not skipped
IsSkippedNever(column) == FALSE

\* column.get("skipped", False)
IsSkipped(column) == Get(column.skipped, FALSE)

\* '{expression} AS "{name}"'.format(**column)
FormatWithCast(column) ==
    Get(column.expression, <<>>) \o <<" ", "A", "S", " ", "\"">> \o column.name \o <<"\"">>

\* '"{name}"'.format(**column)
FormatName(column) == <<"\"">> \o column.name \o <<"\"">>

\* RelationDescription.get_columns_with_casts on the columns of the table design
RECURSIVE GetColumnsWithCasts(_)
GetColumnsWithCasts(columns) ==
    IF columns = <<>> THEN <<>>
    ELSE LET column == Head(columns)
             selected_columns == GetColumnsWithCasts(Tail(columns))
         IN  IF ~IsSkipped(column)
             THEN IF HasExpression(column)
                  THEN <<FormatWithCast(column)>> \o selected_columns
                  ELSE <<FormatName(column)>> \o selected_columns
             ELSE selected_columns

\* the columns a table design may list
ColumnNames == {<<"a">>, <<"b">>}
Expressions == {<<>>, <<"e">>}
Columns ==
    {[name |-> n, skipped |-> s, expression |-> e] :
        n \in ColumnNames, s \in {{}, {TRUE}, {FALSE}}, e \in {{}} \cup {{x} : x \in Expressions}}

RECURSIVE ColumnLists(_)
ColumnLists(n) ==
    IF n = 0 THEN {<<>>}
    ELSE ColumnLists(n - 1) \cup
         {Append(s, c) : s \in {t \in ColumnLists(n - 1) : Len(t) = n - 1}, c \in Columns}

\* the table design that the loader finds in the design file of a relation
LoadTableDesign(description, columns) ==
    [depends_on |-> description.dependencies, columns |-> columns]

\* the table_design property, given _table_design and what the loader would return
TableDesignProperty(current, design) == IF current = {} THEN {design} ELSE current

Whitespace == {" ", "\n"}

\* str.strip()
RECURSIVE LStrip(_)
LStrip(s) == IF s # <<>> /\ Head(s) \in Whitespace THEN LStrip(Tail(s)) ELSE s

RECURSIVE RStrip(_, _)
RStrip(s, chars) ==
    IF s # <<>> /\ s[Len(s)] \in chars THEN RStrip(SubSeq(s, 1, Len(s) - 1), chars) ELSE s

Strip(s) == RStrip(LStrip(s), Whitespace)

MissingQueryError == "MissingQueryError"

\* the query_stmt property reading the SQL file at every access
QueryStmtPropertyReloading(current, sql_file) ==
    IF sql_file = {}
    THEN [raised |-> MissingQueryError, query_stmt |-> current]
    ELSE [raised |-> None, query_stmt |-> {RStrip(Strip(Get(sql_file, <<>>)), {";"})}]

\* the query_stmt property, given _query_stmt and the content of the SQL file (none if
\* sql_file_name is None)
QueryStmtProperty(current, sql_file) ==
    IF current # {}
    THEN [raised |-> None, query_stmt |-> current]
    ELSE IF sql_file = {}
    THEN [raised |-> MissingQueryError, query_stmt |-> current]
    ELSE [raised |-> None, query_stmt |-> {RStrip(Strip(Get(sql_file, <<>>)), {";"})}]

\* what the files of a relation hold when they are discovered, and after somebody
\* rewrote them
ColumnsAsDiscovered == <<[name |-> <<"a">>, skipped |-> {}, expression |-> {}]>>
ColumnsRewritten == <<[name |-> <<"b">>, skipped |-> {}, expression |-> {}]>>
SqlAsDiscovered == <<" ", "s", ";", "\n">>
SqlRewritten == <<"t", ";", ";">>

NoFieldCall == [op |-> "none", relation |-> 0, raised |-> None, result |-> {}]

\* the table design that the loader returns for the i-th relation
DesignFile(i) == LoadTableDesign(descriptions[i], design_files[i])

\* descriptions whose table designs have been loaded (their dependencies were read) and
\* whose query statements have not
FieldsAsLoaded ==
    /\ design_files = [i \in 1..Len(descriptions) |-> <<>>]
    /\ sql_files = [i \in 1..Len(descriptions) |-> {}]
    /\ table_design = [i \in 1..Len(descriptions) |-> {DesignFile(i)}]
    /\ query_stmt = [i \in 1..Len(descriptions) |-> {}]
    /\ field_call = NoFieldCall

(***************************************************************************)
(* The relation engine as a state machine: a collection of descriptions is *)
(* discovered, then order_by_dependencies and set_required_relations are   *)
(* called on it.                                                           *)
(***************************************************************************)
NotCalled == [status |-> "not_called"]

\* no Extractor has been constructed
NoExtractor ==
    /\ keep_going = FALSE
    /\ failed_sources = {}
    /\ tasks = <<>>
    /\ extraction = [pc |-> "none"]

\* no SqoopExtractor has been constructed
NoSqoopExtractor ==
    /\ dry_run = FALSE
    /\ store = {}
    /\ manifest = {}
    /\ local = [directory |-> FALSE, files |-> {}]
    /\ table_call = [pc |-> "none"]

InitOrder ==
    /\ NoExtractor
    /\ NoSqoopExtractor
    /\ descriptions \in UNION {Inputs(n, n, MaxEdges) : n \in 0..MaxRel}
    /\ is_required = [i \in 1..Len(descriptions) |-> None]
    /\ ordering = NotCalled
    /\ selection = NotCalled
    /\ FieldsAsLoaded

\* what a call of order_by_dependencies leaves with its caller
OrderingOutcome(run) ==
    [status |-> IF run.raised = None THEN "returned" ELSE "raised",
     raised |-> run.raised, result |-> run.result, pops |-> run.pops]

\* a caller runs order_by_dependencies on the freshly discovered descriptions (the call
\* neither reads nor writes _is_required)
CallOrderByDependencies ==
    /\ ordering = NotCalled
    /\ selection = NotCalled
    /\ ordering' = OrderingOutcome(OrderByDependencies(descriptions))
    /\ UNCHANGED <<descriptions, is_required, selection, extractVars, tableVars, fieldVars>>

\* set_required_relations(descriptions, required_selector), given the outcome `run` of
\* its call of order_by_dependencies: the new values of _is_required, or the error
SetRequiredRelations(ds, selector, before, run) ==
    IF run.raised # None
    THEN [raised |-> run.raised, is_required |-> before]
    ELSE [raised |-> None,
          is_required |-> MarkRequired(ds, run.result,
                                       RequiredRelations(ds, run.result, selector), before)]

SelectionOutcome(selector, call) ==
    [status |-> IF call.raised = None THEN "returned" ELSE "raised",
     raised |-> call.raised, selector |-> selector, is_required |-> call.is_required]

\* a caller runs set_required_relations(descriptions, selector); `run` is the outcome of
\* the call of order_by_dependencies that opens it
CallWithOrdering(run) ==
    \E selector \in SUBSET KnownTables(descriptions) :
        /\ selection = NotCalled
        /\ selection' = SelectionOutcome(selector,
                            SetRequiredRelations(descriptions, selector, is_required, run))
        /\ is_required' = selection'.is_required
        /\ UNCHANGED <<descriptions, ordering, extractVars, tableVars, fieldVars>>

CallSetRequiredRelations == CallWithOrdering(OrderByDependencies(descriptions))

NextOrder == CallOrderByDependencies \/ CallSetRequiredRelations

SpecOrder == InitOrder /\ [][NextOrder]_vars

(***************************************************************************)
(* Extractor.extract_source and Extractor.extract_sources                  *)
(***************************************************************************)
\* the keys of Extractor.schemas: the names of the upstream sources
Schemas == {"s1", "s2"}

\* max_workers = len(self.schemas)
MaxWorkers == Cardinality(Schemas)

\* RelationDescription.source_name: the schema of the target table
SourceName(description) == description.identifier[1]

ETLRuntimeError == "ETLRuntimeError"
OtherException == "Exception"
DataExtractError == "DataExtractError"

\* how a call of extract_table may end: it returns, raises an error descending from
\* ETLRuntimeError, or raises any other exception
ExtractTableOutcomes == {"ok", ETLRuntimeError, OtherException}

\* the relations an Extractor is constructed with: n relations, each of some source
ExtractorRelations(n) ==
    {[i \in 1..n |-> [identifier |-> <<by_source[i], i>>, dependencies |-> {}]] :
        by_source \in [1..n -> Schemas]}

\* groupby(self.relations, attrgetter("source_name")): runs of consecutive relations of
\* the same source, as positions of the list
RECURSIVE GroupBy(_, _, _)
GroupBy(ds, i, groups) ==
    IF i > Len(ds) THEN groups
    ELSE IF groups # <<>> /\ groups[Len(groups)].source = SourceName(ds[i])
    THEN GroupBy(ds, i + 1, [groups EXCEPT ![Len(groups)].relations = Append(@, i)])
    ELSE GroupBy(ds, i + 1, Append(groups, [source |-> SourceName(ds[i]), relations |-> <<i>>]))

\* executor.submit(self.extract_source, self.schemas[source_name], list(relation_group))
Submit(group) ==
    [source |-> group.source, relations |-> group.relations, state |-> "pending",
     in_flight |-> FALSE, calls |-> <<>>, outcomes |-> <<>>, failed |-> <<>>,
     exception |-> None]

\* the except clause of extract_source after the bookkeeping: continue with the next
\* relation, re-raise, or fail reading is_required
OnETLRuntimeErrorNeverRaises(required, going) ==
    IF IsRequiredProperty(required) = RuntimeErrorKind THEN RuntimeErrorKind
    ELSE "continue"

OnETLRuntimeErrorIgnoresRequired(required, going) ==
    IF IsRequiredProperty(required) = RuntimeErrorKind THEN RuntimeErrorKind
    ELSE IF going THEN "continue"
    ELSE "raise"

OnETLRuntimeError(required, going) ==
    IF IsRequiredProperty(required) = RuntimeErrorKind THEN RuntimeErrorKind
    ELSE IF IsRequiredProperty(required) = "False" THEN "continue"
    ELSE IF going THEN "continue"
    ELSE "raise"

\* extract_source left by a return statement where it raises
ReturnedInsteadOfRaised(task, exception) == [task EXCEPT !.state = "finished"]

\* an addition that drops what the other tasks have added
FailedSourcesOverwritten(failed, source, outcome) ==
    IF outcome = ETLRuntimeError THEN {source} ELSE failed

\* self.failed_sources.add(source.name) in the except clause of extract_source
FailedSourcesAfter(failed, source, outcome) ==
    IF outcome = ETLRuntimeError THEN failed \cup {source} ELSE failed

\* the future of a task whose call of extract_source ended with the exception
Raised(task, exception) == [task EXCEPT !.state = "finished", !.exception = exception]

\* the loop of extract_source moves on: to the next relation, or to the return statement
Continue(task) ==
    IF Len(task.outcomes) = Len(task.relations) THEN [task EXCEPT !.state = "finished"]
    ELSE task

\* the except clause of extract_source for the relation at position `relation`
HandleETLRuntimeError(task, relation, decision) ==
    IF decision = "continue" THEN Continue([task EXCEPT !.failed = Append(@, relation)])
    ELSE IF decision = "raise" THEN Raised([task EXCEPT !.failed = Append(@, relation)], ETLRuntimeError)
    ELSE Raised([task EXCEPT !.failed = Append(@, relation)], decision)

\* the round of the loop with an except clause that catches every exception
AfterExtractTableCatchesAll(task, relation, outcome, required, going) ==
    IF outcome = "ok" THEN Continue(task)
    ELSE HandleETLRuntimeError(task, relation, OnETLRuntimeError(required, going))

\* one round of the loop of extract_source once extract_table has ended with `outcome`
AfterExtractTable(task, relation, outcome, required, going) ==
    IF outcome = "ok" THEN Continue(task)
    ELSE IF outcome = ETLRuntimeError
    THEN HandleETLRuntimeError(task, relation, OnETLRuntimeError(required, going))
    ELSE Raised(task, outcome)

Finished(ts) == {t \in 1..Len(ts) : ts[t].state = "finished"}
WithException(ts) == {t \in Finished(ts) : ts[t].exception # None}

\* the with block left without waiting for the workers
ExecutorShutdownNoWait(ts) == TRUE

\* leaving the with block of the executor: shutdown(wait=True) returns once every
\* future, started or not, has finished
ExecutorShutdown(ts) == Finished(ts) = 1..Len(ts)

\* concurrent.futures.wait(futures, return_when=...) may return
WaitMayReturn(going, ts) ==
    IF going THEN Finished(ts) = 1..Len(ts)                      \* ALL_COMPLETED
    ELSE WithException(ts) # {} \/ Finished(ts) = 1..Len(ts)     \* FIRST_EXCEPTION

\* the end of extract_sources: future.result() of every future in done, then the test
\* of not_done; the futures of the set done come in any order
CollectResults(done, not_done, ts) ==
    IF done \cap WithException(ts) # {}
    THEN {[outcome |-> "raised", raised |-> ts[t].exception, missing_tables |-> {}] :
            t \in done \cap WithException(ts)}
    ELSE IF not_done # {}
    THEN {[outcome |-> "raised", raised |-> DataExtractError, missing_tables |-> {}]}
    ELSE {[outcome |-> "returned", raised |-> None,
           missing_tables |-> UNION {{ts[t].failed[k] : k \in 1..Len(ts[t].failed)} : t \in done}]}

InitExtract ==
    /\ NoSqoopExtractor
    /\ descriptions \in UNION {ExtractorRelations(n) : n \in 0..MaxExtract}
    /\ is_required \in {[i \in 1..Len(descriptions) |-> None]}
                          \cup [1..Len(descriptions) -> {"True", "False"}]
    /\ ordering = NotCalled
    /\ selection = NotCalled
    /\ keep_going \in BOOLEAN
    /\ failed_sources \in SUBSET Schemas
    /\ tasks = <<>>
    /\ extraction = [pc |-> "constructed", done |-> {}, not_done |-> {},
                     outcome |-> None, raised |-> None, missing_tables |-> {}]
    /\ FieldsAsLoaded

\* extract_sources up to the call of concurrent.futures.wait
ExtractSources ==
    /\ extraction.pc = "constructed"
    /\ failed_sources' = {}
    /\ tasks' = [g \in 1..Len(GroupBy(descriptions, 1, <<>>)) |->
                    Submit(GroupBy(descriptions, 1, <<>>)[g])]
    /\ extraction' = [extraction EXCEPT !.pc = "waiting"]
    /\ UNCHANGED <<relationVars, tableVars, keep_going, fieldVars>>

\* a worker thread of the pool takes the next work item off the queue
TaskStarts(t) ==
    /\ tasks[t].state = "pending"
    /\ \A u \in 1..(t - 1) : tasks[u].state # "pending"
    /\ Cardinality({u \in 1..Len(tasks) : tasks[u].state = "running"}) < MaxWorkers
    /\ tasks' = [tasks EXCEPT ![t].state = "running"]
    /\ UNCHANGED <<relationVars, tableVars, keep_going, failed_sources, extraction, fieldVars>>

\* extract_source calls extract_table for its next relation
ExtractTableCalled(t) ==
    /\ tasks[t].state = "running"
    /\ ~tasks[t].in_flight
    /\ tasks' = [tasks EXCEPT ![t].in_flight = TRUE,
                              ![t].calls = Append(@, tasks[t].relations[Len(@) + 1])]
    /\ UNCHANGED <<relationVars, tableVars, keep_going, failed_sources, extraction, fieldVars>>

\* the call of extract_table ends and extract_source deals with its outcome
ExtractTableEnds(t) ==
    /\ tasks[t].state = "running"
    /\ tasks[t].in_flight
    /\ \E outcome \in ExtractTableOutcomes :
        LET relation == tasks[t].relations[Len(tasks[t].outcomes) + 1]
        IN  /\ tasks' = [tasks EXCEPT ![t] =
                            AfterExtractTable([@ EXCEPT !.in_flight = FALSE,
                                                        !.outcomes = Append(@, outcome)],
                                              relation, outcome, is_required[relation],
                                              keep_going)]
            /\ failed_sources' = FailedSourcesAfter(failed_sources, tasks[t].source, outcome)
    /\ UNCHANGED <<relationVars, tableVars, keep_going, extraction, fieldVars>>

\* concurrent.futures.wait returns the futures done and not done
WaitReturns ==
    /\ extraction.pc = "waiting"
    /\ WaitMayReturn(keep_going, tasks)
    /\ extraction' = [extraction EXCEPT !.pc = "joining",
                                        !.done = Finished(tasks),
                                        !.not_done = (1..Len(tasks)) \ Finished(tasks)]
    /\ UNCHANGED <<relationVars, tableVars, keep_going, failed_sources, tasks, fieldVars>>

\* the with block is left (the executor joins its workers) and the results are collected
ExtractSourcesEnds ==
    /\ extraction.pc = "joining"
    /\ ExecutorShutdown(tasks)
    /\ \E end \in CollectResults(extraction.done, extraction.not_done, tasks) :
        extraction' = [extraction EXCEPT !.pc = "done",
                                         !.outcome = end.outcome,
                                         !.raised = end.raised,
                                         !.missing_tables = end.missing_tables]
    /\ UNCHANGED <<relationVars, tableVars, keep_going, failed_sources, tasks, fieldVars>>

NextExtract ==
    \/ ExtractSources
    \/ \E t \in 1..Len(tasks) : TaskStarts(t)
    \/ \E t \in 1..Len(tasks) : ExtractTableCalled(t)
    \/ \E t \in 1..Len(tasks) : ExtractTableEnds(t)
    \/ WaitReturns
    \/ ExtractSourcesEnds

SpecExtract == InitExtract /\ [][NextExtract]_vars

(***************************************************************************)
(* Repeated runs of order_by_dependencies, each with its own schedule of   *)
(* the worker threads that load the table designs                          *)
(***************************************************************************)
MaxLoaded == MaxRel - 1

\* the orders in which the workers wrapping n descriptions may finish: schedule[k] is
\* the position of the description whose worker is the k-th to finish
Schedules(n) == {s \in [1..n -> 1..n] : \A i, j \in 1..n : s[i] = s[j] => i = j}

\* the results taken in the order of completion
ExecutorMapAsCompleted(ds, schedule) == [k \in 1..Len(ds) |-> ds[schedule[k]]]

\* list(executor.map(lambda v: SortableRelationDescription(v), relation_descriptions)):
\* the result for the i-th description is the i-th of the list, whenever it was ready
ExecutorMap(ds, schedule) ==
    [i \in 1..Len(ds) |-> ds[schedule[CHOOSE k \in 1..Len(ds) : schedule[k] = i]]]

\* order_by_dependencies with the given schedule of its workers; the list returned
\* holds the original descriptions, named by their positions in the input
OrderByDependenciesScheduled(ds, schedule, loaded, run) ==
    [run EXCEPT !.result = [k \in 1..Len(run.result) |->
                               TableMap(ds, loaded[run.result[k]].identifier)]]

\* what a run leaves with its caller, and whether it was a repeated run
RunOutcome(run, again) ==
    [status |-> IF run.raised = None THEN "returned" ELSE "raised",
     raised |-> run.raised, result |-> run.result, pops |-> run.pops, again |-> again]

InitRuns ==
    /\ NoExtractor
    /\ NoSqoopExtractor
    /\ descriptions \in UNION {Inputs(n, n, MaxEdges) : n \in 0..MaxLoaded}
    /\ is_required = [i \in 1..Len(descriptions) |-> None]
    /\ ordering = NotCalled
    /\ selection = NotCalled
    /\ FieldsAsLoaded

RunWithSchedule(schedule, loaded) ==
    ordering' = RunOutcome(OrderByDependenciesScheduled(descriptions, schedule, loaded,
                                                        OrderByDependencies(loaded)),
                           ordering # NotCalled)

\* a caller runs order_by_dependencies on the descriptions, for the first time or for
\* the second time on the same descriptions
RunOrderByDependencies ==
    /\ IF ordering = NotCalled THEN TRUE ELSE ~ordering.again
    /\ \E schedule \in Schedules(Len(descriptions)) :
          RunWithSchedule(schedule, ExecutorMap(descriptions, schedule))
    /\ UNCHANGED <<descriptions, is_required, selection, extractVars, tableVars, fieldVars>>

NextRuns == RunOrderByDependencies

SpecRuns == InitRuns /\ [][NextRuns]_vars

(***************************************************************************)
(* Strings of the object store.  A string is the sequence of its           *)
(* characters, so that searching, comparing and joining strings are        *)
(* computed as Python computes them.                                       *)
(***************************************************************************)
\* the characters in use, in code point order: the order of Python's str comparison
Alphabet ==
    <<"-", ".", "/", "0", "1", "3", ":", "C", "E", "S", "U", "_", "a", "b", "c", "d",
      "e", "f", "g", "i", "m", "n", "p", "r", "s", "t", "v", "z">>

CharRank(c) == CHOOSE i \in 1..Len(Alphabet) : Alphabet[i] = c

Min(a, b) == IF a <= b THEN a ELSE b

\* a < b for two str values
LexLess(a, b) ==
    \E i \in 1..(Min(Len(a), Len(b)) + 1) :
        /\ \A j \in 1..(i - 1) : a[j] = b[j]
        /\ IF i <= Len(a) /\ i <= Len(b) THEN CharRank(a[i]) < CharRank(b[i])
           ELSE i > Len(a) /\ i <= Len(b)

\* sub in s
Contains(s, sub) ==
    \E i \in 1..(Len(s) - Len(sub) + 1) : SubSeq(s, i, i + Len(sub) - 1) = sub

\* s.endswith(suffix)
EndsWith(s, suffix) ==
    /\ Len(s) >= Len(suffix)
    /\ SubSeq(s, Len(s) - Len(suffix) + 1, Len(s)) = suffix

\* s.startswith(prefix)
StartsWith(s, prefix) ==
    /\ Len(s) >= Len(prefix)
    /\ SubSeq(s, 1, Len(prefix)) = prefix

\* os.path.join(a, b) for a relative b
Join(a, b) == a \o <<"/">> \o b

\* sorted(keys, reverse=True)
RECURSIVE SortedDescending(_)
SortedDescending(keys) ==
    IF keys = {} THEN <<>>
    ELSE LET last == CHOOSE k \in keys : \A other \in keys \ {k} : LexLess(other, k)
         IN  <<last>> \o SortedDescending(keys \ {last})

\* sorted(keys)
RECURSIVE Sorted(_)
Sorted(keys) ==
    IF keys = {} THEN <<>>
    ELSE LET first == CHOOSE k \in keys : \A other \in keys \ {k} : LexLess(k, other)
         IN  <<first>> \o Sorted(keys \ {first})

(***************************************************************************)
(* The Sqoop strategy: SqoopExtractor.extract_table for one relation and   *)
(* Extractor.write_manifest_file                                           *)
(***************************************************************************)
BucketName == <<"b">>
Prefix == <<"p">>
DataFolder == <<"d", "a", "t", "a">>
SourcePathName == <<"t">>

\* relation.manifest_file_name
ManifestFileName ==
    Join(Join(Prefix, DataFolder), SourcePathName \o <<".", "m", "a", "n", "i", "f", "e", "s", "t">>)

\* relation.csv_path_name: the manifest is in the folder above the CSV files
CsvPathName == Join(Join(DataFolder, SourcePathName), <<"c", "s", "v">>)

\* os.path.join(relation.prefix, relation.csv_path_name)
CsvPrefix == Join(Prefix, CsvPathName)

\* source_prefix + "/_SUCCESS"
SuccessKey(source_prefix) == source_prefix \o <<"/", "_", "S", "U", "C", "C", "E", "S", "S">>

\* the names of the objects that may be found in the folder of the CSV files
FileNames ==
    { <<"p", "a", "r", "t", "-", "0", ".", "g", "z">>,
      <<"p", "a", "r", "t", "-", "1", ".", "g", "z">>,
      <<"a", "p", "a", "r", "t", ".", "g", "z">>,
      <<"p", "a", "r", "t", "-", "0", ".", "c", "r", "c">>,
      <<"d", "a", "t", "a", ".", "g", "z">>,
      <<"_", "S", "U", "C", "C", "E", "S", "S">> }

\* the keys that Sqoop may write: those in its target directory
TargetKeys == {Join(CsvPrefix, name) : name \in FileNames}

\* an object of the bucket that is not in the folder of the CSV files
OtherKey == Join(Join(Prefix, DataFolder), <<"p", "a", "r", "t", ".", "g", "z">>)

Keys == TargetKeys \cup {OtherKey}

\* etl.s3.list_objects_for_prefix(bucket, prefix) for the bucket of the relation
ListObjectsForPrefix(objects, prefix) == {key \in objects : StartsWith(key, prefix)}

\* etl.s3.delete_objects(bucket, keys)
DeleteObjects(objects, keys) == objects \ keys

\* etl.s3.get_s3_object_last_modified(bucket, key, wait): the outcomes are a timestamp
\* or None, each with the objects of the bucket at the time the call returns
GetS3ObjectLastModified(objects, key, wait) ==
    IF key \in objects THEN {[last_modified |-> "timestamp", objects |-> objects, waited |-> FALSE]}
    ELSE IF wait
    THEN {[last_modified |-> "timestamp", objects |-> objects \cup {key}, waited |-> TRUE],
          [last_modified |-> None, objects |-> objects, waited |-> TRUE]}
    ELSE {[last_modified |-> None, objects |-> objects, waited |-> FALSE]}

\* "s3://{}/{}".format(source_bucket, filename)
S3Url(source_bucket, filename) == <<"s", "3", ":", "/", "/">> \o source_bucket \o <<"/">> \o filename

\* "part" in key and key.endswith(".gz")
IsCsvFile(key) == Contains(key, <<"p", "a", "r", "t">>) /\ EndsWith(key, <<".", "g", "z">>)

\* csv_files of write_manifest_file
CsvFiles(objects, source_prefix) ==
    Sorted({key \in ListObjectsForPrefix(objects, source_prefix) : IsCsvFile(key)})

\* the dictionary manifest of write_manifest_file
ManifestOf(source_bucket, csv_files) ==
    [entries |-> [i \in 1..Len(csv_files) |->
                    [url |-> S3Url(source_bucket, csv_files[i]), mandatory |-> TRUE]]]

\* not d, for a dictionary d
NotDict(d) == DOMAIN d = {}

\* a manifest left by an earlier extraction
EarlierManifest ==
    ManifestOf(BucketName, <<Join(CsvPrefix, <<"p", "a", "r", "t", "-", "1", ".", "g", "z">>)>>)

NeedsToWait == TRUE

SqoopExecutionError == "SqoopExecutionError"
MissingCsvFilesError == "MissingCsvFilesError"

ReturnCodes == {0, 1}

Warning(message) == [level |-> "warning", message |-> message]
Info(message) == [level |-> "info", message |-> message]

\* a call of extract_table that has not begun, on an extractor not yet constructed
NewCall ==
    [pc |-> "new", raised |-> None, deleted |-> {}, launched |-> FALSE,
     returncodes |-> <<>>, after_subprocess |-> {}, manifest_step |-> FALSE,
     have_success |-> None, waited |-> FALSE, listing_done |-> FALSE, csv_files |-> <<>>,
     uploaded |-> FALSE, log |-> <<>>, steps |-> <<>>,
     before |-> [store |-> {}, manifest |-> {}, local |-> [directory |-> FALSE, files |-> {}]]]

InitTable ==
    /\ NoExtractor
    /\ descriptions = <<>>
    /\ is_required = <<>>
    /\ ordering = NotCalled
    /\ selection = NotCalled
    /\ dry_run \in BOOLEAN
    /\ store \in SUBSET Keys
    /\ manifest \in {{}, {EarlierManifest}}
    /\ local \in {[directory |-> d, files |-> {}] : d \in BOOLEAN}
    /\ table_call = [NewCall EXCEPT !.before = [store |-> store, manifest |-> manifest,
                                                local |-> local]]
    /\ FieldsAsLoaded

\* SqoopExtractor.__init__
SqoopExtractorInit ==
    /\ table_call.pc = "new"
    /\ local' = [local EXCEPT !.directory = IF ~@ /\ ~dry_run THEN TRUE ELSE @]
    /\ table_call' = [table_call EXCEPT !.pc = "constructed"]
    /\ UNCHANGED <<relationVars, extractVars, dry_run, store, manifest, fieldVars>>

\* write_password_file, write_connection_params and write_options_file
SideFiles(written, name, dry) == IF dry THEN written ELSE written \cup {name}

\* extract_table begins: build_sqoop_options
BuildSqoopOptions ==
    /\ table_call.pc = "constructed"
    /\ local' = [local EXCEPT !.files = SideFiles(SideFiles(@, "pw_", dry_run), "cp_", dry_run)]
    /\ table_call' = [table_call EXCEPT !.pc = "options_built"]
    /\ UNCHANGED <<relationVars, extractVars, dry_run, store, manifest, fieldVars>>

WriteOptionsFile ==
    /\ table_call.pc = "options_built"
    /\ local' = [local EXCEPT !.files = SideFiles(@, "so_", dry_run)]
    /\ table_call' = [table_call EXCEPT !.pc = "options_written"]
    /\ UNCHANGED <<relationVars, extractVars, dry_run, store, manifest, fieldVars>>

\* the objects deleted if the test of dry_run were missing
DeletableInDryRun(objects, csv_prefix, dry) == ListObjectsForPrefix(objects, csv_prefix)

\* a deletion step that deletes nothing
DeletableNothing(objects, csv_prefix, dry) == {}

\* the objects that _delete_directory_before_write deletes
Deletable(objects, csv_prefix, dry) ==
    IF ListObjectsForPrefix(objects, csv_prefix) # {} /\ ~dry
    THEN ListObjectsForPrefix(objects, csv_prefix)
    ELSE {}

DeleteDirectoryBeforeWrite ==
    /\ table_call.pc = "options_written"
    /\ store' = DeleteObjects(store, Deletable(store, CsvPrefix, dry_run))
    /\ table_call' = [table_call EXCEPT !.pc = "directory_deleted",
                                        !.deleted = Deletable(store, CsvPrefix, dry_run),
                                        !.steps = Append(@, "_delete_directory_before_write")]
    /\ UNCHANGED <<relationVars, extractVars, dry_run, manifest, local, fieldVars>>

\* run_sqoop: in a dry-run no process is started; otherwise the process writes objects
\* into its target directory and ends with a return code
RunSqoop ==
    /\ table_call.pc = "directory_deleted"
    /\ IF dry_run
       THEN /\ table_call' = [table_call EXCEPT !.pc = "sqoop_ran", !.after_subprocess = store,
                                               !.steps = Append(@, "run_sqoop")]
            /\ store' = store
       ELSE \E written \in SUBSET TargetKeys : \E returncode \in ReturnCodes :
            /\ store' = store \cup written
            /\ table_call' = [table_call EXCEPT
                                !.pc = IF returncode # 0 THEN "done" ELSE "sqoop_ran",
                                !.raised = IF returncode # 0 THEN SqoopExecutionError ELSE None,
                                !.launched = TRUE,
                                !.returncodes = Append(@, returncode),
                                !.steps = Append(@, "run_sqoop"),
                                !.after_subprocess = store \cup written]
    /\ UNCHANGED <<relationVars, extractVars, dry_run, manifest, local, fieldVars>>

\* write_manifest_file from the listing of the objects on, for a call that got past
\* the test of have_success
ListAndWrite(call, objects, documents, source_bucket, source_prefix, dry) ==
    LET csv_files == CsvFiles(objects, source_prefix)
        document == ManifestOf(source_bucket, csv_files)
        listed == [call EXCEPT !.listing_done = TRUE, !.csv_files = csv_files]
    IN  IF dry
        THEN [call |-> [listed EXCEPT
                          !.pc = "done",
                          !.log = Append(@, IF NotDict(document)
                                            THEN Warning("Dry-run: Found no CSV files")
                                            ELSE Info("Dry-run: Skipping writing manifest file"))],
              manifest |-> documents]
        ELSE IF NotDict(document)
        THEN [call |-> [listed EXCEPT !.pc = "done", !.raised = MissingCsvFilesError],
              manifest |-> documents]
        ELSE [call |-> [listed EXCEPT !.pc = "done", !.uploaded = TRUE,
                                      !.log = Append(@, Info("Writing manifest file"))],
              manifest |-> {document}]

AfterProbeNeverFails(call, probe, documents, source_bucket, source_prefix, dry) ==
    ListAndWrite([call EXCEPT !.manifest_step = TRUE,
                              !.have_success = probe.last_modified,
                              !.waited = probe.waited],
                 probe.objects, documents, source_bucket, source_prefix, dry)

\* write_manifest_file testing have_success only after the manifest is written
AfterProbeWritesThenFails(call, probe, documents, source_bucket, source_prefix, dry) ==
    LET end == ListAndWrite([call EXCEPT !.manifest_step = TRUE,
                                         !.have_success = probe.last_modified,
                                         !.waited = probe.waited],
                            probe.objects, documents, source_bucket, source_prefix, dry)
    IN  IF probe.last_modified = None /\ ~dry
        THEN [call |-> [end.call EXCEPT !.raised = MissingCsvFilesError],
              manifest |-> end.manifest]
        ELSE end

\* write_manifest_file once get_s3_object_last_modified has returned `probe`
AfterProbe(call, probe, documents, source_bucket, source_prefix, dry) ==
    LET probed == [call EXCEPT !.manifest_step = TRUE,
                               !.have_success = probe.last_modified,
                               !.waited = probe.waited]
    IN  IF probe.last_modified = None
        THEN IF dry
             THEN ListAndWrite([probed EXCEPT
                                  !.log = Append(@, Warning("No valid CSV files (_SUCCESS is missing)"))],
                               probe.objects, documents, source_bucket, source_prefix, dry)
             ELSE [call |-> [probed EXCEPT !.pc = "done", !.raised = MissingCsvFilesError],
                   manifest |-> documents]
        ELSE ListAndWrite(probed, probe.objects, documents, source_bucket, source_prefix, dry)

\* extract_table ends: write_manifest_file(relation, relation.bucket_name, prefix)
WriteManifestFile ==
    /\ table_call.pc = "sqoop_ran"
    /\ \E probe \in GetS3ObjectLastModified(store, SuccessKey(CsvPrefix),
                                            NeedsToWait /\ ~dry_run) :
        LET end == AfterProbe([table_call EXCEPT !.steps = Append(@, "write_manifest_file")],
                              probe, manifest, BucketName, CsvPrefix, dry_run)
        IN  /\ store' = probe.objects
            /\ manifest' = end.manifest
            /\ table_call' = end.call
    /\ UNCHANGED <<relationVars, extractVars, dry_run, local, fieldVars>>

NextTable ==
    \/ SqoopExtractorInit
    \/ BuildSqoopOptions
    \/ WriteOptionsFile
    \/ DeleteDirectoryBeforeWrite
    \/ RunSqoop
    \/ WriteManifestFile

SpecTable == InitTable /\ [][NextTable]_vars

(***************************************************************************)
(* The lazily loaded fields as a state machine: the descriptions are       *)
(* constructed, then their fields are read and set_required_relations is   *)
(* called, while the files may be rewritten.                               *)
(***************************************************************************)
\* RelationDescription.__init__ for every discovered file set: nothing is loaded
InitFields ==
    /\ NoExtractor
    /\ NoSqoopExtractor
    /\ descriptions \in UNION {Inputs(n, n, MaxDescribed) : n \in 1..MaxDescribed}
    /\ is_required = [i \in 1..Len(descriptions) |-> None]
    /\ ordering = NotCalled
    /\ selection = NotCalled
    /\ design_files = [i \in 1..Len(descriptions) |-> ColumnsAsDiscovered]
    /\ sql_files \in [1..Len(descriptions) -> {{}, {SqlAsDiscovered}}]
    /\ table_design = [i \in 1..Len(descriptions) |-> {}]
    /\ query_stmt = [i \in 1..Len(descriptions) |-> {}]
    /\ field_call = NoFieldCall

\* a caller reads relation.table_design
ReadTableDesign(i) ==
    /\ table_design' = [table_design EXCEPT ![i] = TableDesignProperty(@, DesignFile(i))]
    /\ field_call' = [op |-> "table_design", relation |-> i, raised |-> None,
                      result |-> table_design'[i]]
    /\ UNCHANGED <<relationVars, extractVars, tableVars, design_files, sql_files, query_stmt>>

QueryStmtRead(i, read) ==
    /\ query_stmt' = [query_stmt EXCEPT ![i] = read.query_stmt]
    /\ field_call' = [op |-> "query_stmt", relation |-> i, raised |-> read.raised,
                      result |-> IF read.raised = None THEN read.query_stmt ELSE {}]

\* a caller reads relation.query_stmt
ReadQueryStmt(i) ==
    /\ QueryStmtRead(i, QueryStmtProperty(query_stmt[i], sql_files[i]))
    /\ UNCHANGED <<relationVars, extractVars, tableVars, design_files, sql_files, table_design>>

\* a caller runs relation.get_columns_with_casts(), which reads relation.table_design
CallGetColumnsWithCasts(i) ==
    /\ table_design' = [table_design EXCEPT ![i] = TableDesignProperty(@, DesignFile(i))]
    /\ field_call' = [op |-> "get_columns_with_casts", relation |-> i, raised |-> None,
                      result |-> {GetColumnsWithCasts(
                                     (CHOOSE design \in table_design'[i] : TRUE).columns)}]
    /\ UNCHANGED <<relationVars, extractVars, tableVars, design_files, sql_files, query_stmt>>

\* a caller runs set_required_relations(descriptions, selector), for the first time or
\* again: order_by_dependencies reads the dependencies, hence the table design, of every
\* description
SetRequiredRelationsCalled ==
    \E selector \in SUBSET KnownTables(descriptions) :
        /\ selection' = SelectionOutcome(selector,
                            SetRequiredRelations(descriptions, selector, is_required,
                                                 OrderByDependencies(descriptions)))
        /\ is_required' = selection'.is_required
        /\ table_design' = [i \in 1..Len(descriptions) |->
                               TableDesignProperty(table_design[i], DesignFile(i))]
        /\ field_call' = [op |-> "set_required_relations", relation |-> 0,
                          raised |-> selection'.raised, result |-> {}]
        /\ UNCHANGED <<descriptions, ordering, extractVars, tableVars, design_files,
                       sql_files, query_stmt>>

\* the files of a relation are rewritten after their discovery
FilesRewritten(i) ==
    /\ design_files[i] = ColumnsAsDiscovered
    /\ design_files' = [design_files EXCEPT ![i] = ColumnsRewritten]
    /\ sql_files' = [sql_files EXCEPT ![i] = IF @ = {} THEN @ ELSE {SqlRewritten}]
    /\ UNCHANGED <<relationVars, extractVars, tableVars, table_design, query_stmt,
                   field_call>>

NextFields ==
    \/ \E i \in 1..Len(descriptions) : ReadTableDesign(i)
    \/ \E i \in 1..Len(descriptions) : ReadQueryStmt(i)
    \/ \E i \in 1..Len(descriptions) : CallGetColumnsWithCasts(i)
    \/ SetRequiredRelationsCalled
    \/ \E i \in 1..Len(descriptions) : FilesRewritten(i)

SpecFields == InitFields /\ [][NextFields]_vars

\* one relation whose design file lists any columns
InitColumns ==
    /\ NoExtractor
    /\ NoSqoopExtractor
    /\ descriptions = <<RelationDescription(1, {})>>
    /\ is_required = <<None>>
    /\ ordering = NotCalled
    /\ selection = NotCalled
    /\ design_files \in {<<columns>> : columns \in ColumnLists(MaxColumns)}
    /\ sql_files = <<{}>>
    /\ table_design = <<{}>>
    /\ query_stmt = <<{}>>
    /\ field_call = NoFieldCall

NextColumns == ReadTableDesign(1) \/ CallGetColumnsWithCasts(1)

SpecColumns == InitColumns /\ [][NextColumns]_vars

(***************************************************************************)
(* Properties of the relation engine                                       *)
(***************************************************************************)
Positions == 1..Len(descriptions)

\* a depends on b: b's identifier is among a's declared dependencies
DeclaredDependency(a, b) == descriptions[b].identifier \in descriptions[a].dependencies

\* the relations reachable from those of S along declared dependencies, S included
RECURSIVE DependencyClosure(_)
GrowClosure(S, next) == IF next \subseteq S THEN S ELSE DependencyClosure(S \cup next)
DependencyClosure(S) ==
    GrowClosure(S, {b \in Positions : \E a \in S : DeclaredDependency(a, b)})

\* b is a direct or transitive dependency of a
TransitiveDependency(a, b) ==
    b \in DependencyClosure({c \in Positions : DeclaredDependency(a, c)})

\* the declared dependencies hold a cycle through at least two relations: some relation
\* depends on another one that depends, directly or transitively, on it
HasCycle ==
    \E a, b \in Positions : a # b /\ DeclaredDependency(a, b) /\ a \in DependencyClosure({b})

\* place of relation a in the list order_by_dependencies returned
PlaceOf(a) == CHOOSE k \in 1..Len(ordering.result) : ordering.result[k] = a

Returned == ordering.status = "returned"

\* C1: whenever order_by_dependencies returns a list, every relation b that relation a
\* declares as a dependency appears strictly before a in that list
C1_DependenciesFirst ==
    Returned =>
        \A a, b \in Positions :
            DeclaredDependency(a, b) =>
                /\ \E k \in 1..Len(ordering.result) : ordering.result[k] = a
                /\ \E k \in 1..Len(ordering.result) : ordering.result[k] = b
                /\ PlaceOf(b) < PlaceOf(a)

\* a list was returned that had to move a dependency given later in the input before
\* its dependent, along a chain of two declared dependencies
C1_Witness ==
    /\ Returned
    /\ \E a, b, c \in Positions :
        /\ a < b /\ b < c
        /\ DeclaredDependency(a, b) /\ DeclaredDependency(b, c)
        /\ PlaceOf(c) < PlaceOf(b) /\ PlaceOf(b) < PlaceOf(a)

\* C2: whenever order_by_dependencies returns, the list is a permutation of the input:
\* every input relation appears exactly once and nothing else appears
C2_Permutation ==
    Returned =>
        /\ Len(ordering.result) = Len(descriptions)
        /\ \A k \in 1..Len(ordering.result) : ordering.result[k] \in Positions
        /\ \A a \in Positions :
              Cardinality({k \in 1..Len(ordering.result) : ordering.result[k] = a}) = 1

\* a list of MaxRel relations was returned in an order other than the input's
C2_Witness ==
    /\ Returned
    /\ Len(descriptions) = MaxRel
    /\ \E k \in 1..Len(ordering.result) : ordering.result[k] # k

\* C3: if the declared dependencies hold a cycle of length >= 2, order_by_dependencies
\* fails with CyclicDependency and returns no ordering, not even a partial one
C3_CycleRaises ==
    (ordering.status # "not_called" /\ HasCycle) =>
        /\ ordering.status = "raised"
        /\ ordering.raised = CyclicDependencyError
        /\ ordering.result = <<>>

\* the call failed on an input in which two relations depend on each other while a
\* third one is free of the cycle
C3_Witness ==
    /\ ordering.status = "raised"
    /\ HasCycle
    /\ \E a \in Positions : ~TransitiveDependency(a, a) /\ descriptions[a].dependencies = {}

Selected == {a \in Positions : descriptions[a].identifier \in selection.selector}

\* C4: after set_required_relations returns, every direct or transitive dependency of a
\* relation matched by the selector has is_required == true
C4_AncestorsRequired ==
    selection.status = "returned" =>
        \A a \in Selected : \A b \in Positions :
            TransitiveDependency(a, b) => IsRequiredProperty(is_required[b]) = "True"

\* the selector matched one relation whose dependency's dependency, matched by nothing
\* and given first in the input, came out required
C4_Witness ==
    /\ selection.status = "returned"
    /\ \E a, b, c \in Positions :
        /\ c < b /\ b < a
        /\ Selected = {a}
        /\ DeclaredDependency(a, b) /\ DeclaredDependency(b, c) /\ ~DeclaredDependency(a, c)
        /\ is_required[c] = "True"

\* C5: after set_required_relations returns, is_required is true for exactly the
\* relations matched by the selector and their transitive dependencies, and false for
\* every other input relation
C5_ExactlyClosureRequired ==
    selection.status = "returned" =>
        \A b \in Positions :
            IsRequiredProperty(is_required[b]) =
                IF b \in DependencyClosure(Selected) THEN "True" ELSE "False"

\* u -> v -> w and x, selector {u}: u, v, w are required and x is not
C5_Witness ==
    /\ selection.status = "returned"
    /\ \E u, v, w \in Positions :
        /\ Selected = {u}
        /\ descriptions[u].dependencies = {descriptions[v].identifier}
        /\ descriptions[v].dependencies = {descriptions[w].identifier}
        /\ descriptions[w].dependencies = {}
        /\ is_required[u] = "True" /\ is_required[v] = "True" /\ is_required[w] = "True"
    /\ \E x \in Positions : is_required[x] = "False"

(***************************************************************************)
(* Properties of the extraction engine                                     *)
(***************************************************************************)
Tasks == 1..Len(tasks)

\* the call of extract_source of task t ended with an exception on its k-th relation
StoppedAt(t, k) ==
    /\ tasks[t].state = "finished"
    /\ tasks[t].exception # None
    /\ Len(tasks[t].outcomes) = k

\* the relations of task t whose call of extract_table raised an ETLRuntime error, in
\* the order of the calls
RECURSIVE FailedCalls(_, _)
FailedCalls(t, k) ==
    IF k = 0 THEN <<>>
    ELSE IF tasks[t].outcomes[k] = ETLRuntimeError
    THEN Append(FailedCalls(t, k - 1), tasks[t].relations[k])
    ELSE FailedCalls(t, k - 1)

\* C6: in extract_source, after an ETLRuntime error of extract_table the loop goes on if
\* the relation is not required (whatever keep_going is) or if it is required and
\* keep_going is set, and the error is re-raised only if the relation is required and
\* keep_going is not set; when the loop finishes, the list returned holds exactly the
\* relations whose extract_table failed, in extraction order
C6_FailurePolicy ==
    \A t \in Tasks :
        /\ \A k \in 1..Len(tasks[t].outcomes) :
              tasks[t].outcomes[k] = ETLRuntimeError =>
                  /\ is_required[tasks[t].relations[k]] = "False" => ~StoppedAt(t, k)
                  /\ (is_required[tasks[t].relations[k]] = "True" /\ keep_going) =>
                        ~StoppedAt(t, k)
                  /\ (is_required[tasks[t].relations[k]] = "True" /\ ~keep_going) =>
                        (StoppedAt(t, k) /\ tasks[t].exception = ETLRuntimeError)
        /\ (tasks[t].state = "finished" /\ tasks[t].exception = None) =>
              /\ Len(tasks[t].outcomes) = Len(tasks[t].relations)
              /\ tasks[t].failed = FailedCalls(t, Len(tasks[t].outcomes))

\* without keep_going, a source went past the failure of a relation that is not
\* required, extracted the next relation, hit a second such failure and returned the
\* two failed relations in extraction order
C6_Witness ==
    \E t \in Tasks :
        /\ ~keep_going
        /\ tasks[t].state = "finished" /\ tasks[t].exception = None
        /\ tasks[t].outcomes = <<ETLRuntimeError, "ok", ETLRuntimeError>>
        /\ tasks[t].failed = <<tasks[t].relations[1], tasks[t].relations[3]>>
        /\ is_required[tasks[t].relations[1]] = "False"

\* some call of extract_table for a required relation raised an ETLRuntime error
RequiredFailure ==
    \E t \in Tasks : \E k \in 1..Len(tasks[t].outcomes) :
        /\ tasks[t].outcomes[k] = ETLRuntimeError
        /\ is_required[tasks[t].relations[k]] = "True"

\* no call of extract_table raised anything but ETLRuntime errors, and the required
\* state of every relation is known
OnlyETLRuntimeFailures ==
    /\ \A t \in Tasks : \A k \in 1..Len(tasks[t].outcomes) :
          tasks[t].outcomes[k] # OtherException
    /\ \A i \in 1..Len(descriptions) : is_required[i] # None

\* extract_table was called for every relation of every source
AllAttempted ==
    /\ \A t \in Tasks : Len(tasks[t].outcomes) = Len(tasks[t].relations)
    /\ \A i \in 1..Len(descriptions) :
          \E t \in Tasks : \E k \in 1..Len(tasks[t].relations) : tasks[t].relations[k] = i

\* C7: without keep_going, an ETLRuntime failure of a required relation makes
\* extract_sources end by raising; with keep_going and only ETLRuntime failures,
\* extract_sources attempts every relation of every source and returns
C7_RequiredFailureAborts ==
    extraction.pc = "done" =>
        /\ (~keep_going /\ RequiredFailure) => extraction.outcome = "raised"
        /\ (keep_going /\ OnlyETLRuntimeFailures) =>
              (AllAttempted /\ extraction.outcome = "returned")

\* without keep_going, extract_sources raised after a required relation of one source
\* failed while the task of another source was still not done when the wait returned
C7_Witness ==
    /\ extraction.pc = "done"
    /\ ~keep_going
    /\ RequiredFailure
    /\ extraction.outcome = "raised"
    /\ extraction.not_done # {}

\* C8: in extract_sources, if an exception surfaced from a per-source task, the call
\* fails with a DataExtract error
C8_DataExtractRaised ==
    (extraction.pc = "done" /\ WithException(tasks) # {}) =>
        (extraction.outcome = "raised" /\ extraction.raised = DataExtractError)

(***************************************************************************)
(* Properties of the Sqoop strategy                                        *)
(***************************************************************************)
\* the data files among the keys of the model: those of the folder of the CSV files
\* whose name contains "part" and ends with ".gz"
DataFileKeys ==
    { Join(CsvPrefix, <<"a", "p", "a", "r", "t", ".", "g", "z">>),
      Join(CsvPrefix, <<"p", "a", "r", "t", "-", "0", ".", "g", "z">>),
      Join(CsvPrefix, <<"p", "a", "r", "t", "-", "1", ".", "g", "z">>) }

ReturnedSuccessfully == table_call.pc = "done" /\ table_call.raised = None

\* the manifest at the computed path lists, in ascending order and as mandatory, the
\* URLs of the data files present when the subprocess had finished
ManifestListsDataFiles ==
    \E document \in manifest :
        /\ manifest = {document}
        /\ {document.entries[i].url : i \in 1..Len(document.entries)} =
              {<<"s", "3", ":", "/", "/", "b", "/">> \o key :
                  key \in table_call.after_subprocess \cap DataFileKeys}
        /\ \A i, j \in 1..Len(document.entries) :
              i < j => LexLess(document.entries[i].url, document.entries[j].url)
        /\ \A i \in 1..Len(document.entries) : document.entries[i].mandatory = TRUE

\* C9 as stated: after every extract_table call that returns successfully, a manifest
\* exists at the computed manifest path whose entry URLs are exactly, in ascending
\* order, the URLs of the keys under the CSV prefix that contain "part" and end with
\* ".gz" after the subprocess finished, each marked mandatory
C9_ManifestAfterSuccess == ReturnedSuccessfully => ManifestListsDataFiles

\* C9 amended: the same, for the calls that are not a dry-run
C9_ManifestAfterRealSuccess == (ReturnedSuccessfully /\ ~dry_run) => ManifestListsDataFiles

\* a call that is not a dry-run returned after Sqoop wrote all three data files next to
\* other objects, and the manifest of an earlier extraction was replaced
C9_Witness ==
    /\ ReturnedSuccessfully /\ ~dry_run
    /\ table_call.launched
    /\ table_call.after_subprocess \cap TargetKeys = TargetKeys
    /\ \E document \in manifest : Len(document.entries) = Cardinality(DataFileKeys)
    /\ manifest # {EarlierManifest}

\* C10: in write_manifest_file, if the list of retained data files is empty then a
\* call that is not a dry-run fails with MissingCsvFiles and uploads no manifest, and a
\* dry-run only logs a warning
C10_EmptyListFails ==
    (table_call.pc = "done" /\ table_call.listing_done /\ table_call.csv_files = <<>>) =>
        IF dry_run
        THEN /\ table_call.raised = None
             /\ Warning("Dry-run: Found no CSV files") \in
                   {table_call.log[i] : i \in 1..Len(table_call.log)}
        ELSE /\ table_call.raised = MissingCsvFilesError
             /\ ~table_call.uploaded

\* the call reached write_manifest_file and the probe did not find the sentinel
SentinelAbsent ==
    /\ table_call.pc = "done"
    /\ table_call.manifest_step
    /\ table_call.have_success = None

\* C11: in write_manifest_file, if the _SUCCESS sentinel is absent after the probe
\* (and after any wait), then outside a dry-run the call fails with MissingCsvFiles
\* before listing the files and uploads no manifest, and in a dry-run it does not fail
\* and goes on with the files that are present
C11_SentinelAbsent ==
    SentinelAbsent =>
        IF dry_run
        THEN /\ table_call.raised = None
             /\ table_call.listing_done
             /\ {table_call.csv_files[i] : i \in 1..Len(table_call.csv_files)} =
                   store \cap DataFileKeys
        ELSE /\ table_call.raised = MissingCsvFilesError
             /\ ~table_call.listing_done
             /\ manifest = table_call.before.manifest

\* outside a dry-run, Sqoop ended with 0 and wrote data files but no sentinel, the probe
\* waited in vain, and the call failed leaving the manifest of an earlier extraction
C11_Witness ==
    /\ SentinelAbsent /\ ~dry_run
    /\ table_call.waited
    /\ store \cap DataFileKeys # {}
    /\ table_call.raised = MissingCsvFilesError
    /\ manifest = {EarlierManifest}

(***************************************************************************)
(* Further properties of the relation engine                               *)
(***************************************************************************)
\* neither of the two input relations depends on the other, directly or transitively
MutuallyUnconstrained(a, b) == ~TransitiveDependency(a, b) /\ ~TransitiveDependency(b, a)

\* C12 as stated: the result of order_by_dependencies is a stable topological sort: of
\* two input relations that are mutually unconstrained, the one earlier in the input is
\* earlier in the output
C12_StableSort ==
    Returned =>
        \A a, b \in Positions :
            (a < b /\ MutuallyUnconstrained(a, b)) => PlaceOf(a) < PlaceOf(b)

\* the relation declares no dependency that orders it: none on an input relation and
\* none on pg_catalog
DeclaresNoOrderingDependency(a) ==
    \A d \in descriptions[a].dependencies :
        d \notin KnownTables(descriptions) /\ ~StartsWithPgCatalog(d)

\* C12 amended: of two input relations that declare no dependency on an input relation
\* or on pg_catalog, the one earlier in the input is earlier in the output
C12_StableAmongIndependent ==
    Returned =>
        \A a, b \in Positions :
            (a < b /\ DeclaresNoOrderingDependency(a) /\ DeclaresNoOrderingDependency(b))
                => PlaceOf(a) < PlaceOf(b)

\* three relations were ordered of which the first and the third declare no ordering
\* dependency and the second depends on the third: the third went before the second
\* and stayed behind the first
C12_Witness ==
    /\ Returned
    /\ Len(descriptions) = 3
    /\ DeclaresNoOrderingDependency(1) /\ DeclaresNoOrderingDependency(3)
    /\ descriptions[3].dependencies # {}
    /\ DeclaredDependency(2, 3)
    /\ ordering.result = <<1, 3, 2>>

\* the relation declares at least one dependency with the pg_catalog prefix
DeclaresCatalogDependency(a) == \E d \in descriptions[a].dependencies : StartsWithPgCatalog(d)

\* C13: whenever order_by_dependencies returns, every relation that declared at least
\* one pg_catalog dependency comes after every input relation that declared none
C13_CatalogDependentsLast ==
    Returned =>
        \A a, b \in Positions :
            (DeclaresCatalogDependency(a) /\ ~DeclaresCatalogDependency(b))
                => PlaceOf(b) < PlaceOf(a)

\* a relation with only a pg_catalog dependency led the input and was returned behind
\* two relations without one, one of which depends on the other
C13_Witness ==
    /\ Returned
    /\ Len(descriptions) = 3
    /\ descriptions[1].dependencies = {CatalogId}
    /\ ~DeclaresCatalogDependency(2) /\ ~DeclaresCatalogDependency(3)
    /\ DeclaredDependency(2, 3)
    /\ ordering.result = <<3, 2, 1>>

SourceNames == {SourceName(descriptions[i]) : i \in 1..Len(descriptions)}

\* C15: for any list of relations, extract_sources schedules exactly one task per
\* distinct source name, and at no time are two calls of extract_table for relations of
\* the same source in flight
C15_OneTaskPerSource ==
    extraction.pc \in {"waiting", "joining", "done"} =>
        /\ Cardinality(Tasks) = Cardinality(SourceNames)
        /\ \A t, u \in Tasks :
              (t # u /\ tasks[t].in_flight /\ tasks[u].in_flight) =>
                  tasks[t].source # tasks[u].source

\* every call of extract_table that failed did so with an ETLRuntime error and for a
\* relation that is not required, and at least one did
OnlyNonRequiredFailures ==
    /\ \A t \in Tasks : \A k \in 1..Len(tasks[t].outcomes) :
          tasks[t].outcomes[k] # "ok" =>
              /\ tasks[t].outcomes[k] = ETLRuntimeError
              /\ is_required[tasks[t].relations[k]] = "False"
    /\ \E t \in Tasks : \E k \in 1..Len(tasks[t].outcomes) : tasks[t].outcomes[k] # "ok"

\* the sources with a failed call of extract_table
SourcesWithFailure ==
    {tasks[t].source : t \in {u \in Tasks : \E k \in 1..Len(tasks[u].outcomes) :
                                                tasks[u].outcomes[k] = ETLRuntimeError}}

\* C16: without keep_going, when the only relations whose extraction fails (with
\* ETLRuntime errors) are not required, every source goes on with its remaining
\* relations, every relation of every source is attempted, extract_sources returns
\* without raising, and failed_sources holds every source that had a failure
C16_NonRequiredFailuresTolerated ==
    (extraction.pc = "done" /\ ~keep_going /\ OnlyNonRequiredFailures) =>
        /\ AllAttempted
        /\ extraction.outcome = "returned"
        /\ SourcesWithFailure \subseteq failed_sources

\* without keep_going, both sources had a relation that is not required fail before
\* their last relation, and extract_sources returned
C16_Witness ==
    /\ extraction.pc = "done" /\ ~keep_going /\ OnlyNonRequiredFailures
    /\ extraction.outcome = "returned"
    /\ failed_sources = Schemas
    /\ \E t \in Tasks : tasks[t].outcomes = <<ETLRuntimeError, "ok">>

(***************************************************************************)
(* Further properties of the Sqoop strategy                                *)
(***************************************************************************)
\* C17: in a dry-run, constructing the Sqoop extractor and running extract_table
\* creates no side file and no scratch directory, deletes no object, starts no
\* subprocess and uploads no manifest: the object store and the local file system are
\* left as they were, and the manifest step never waits for the sentinel
C17_DryRunElision ==
    dry_run =>
        /\ local = table_call.before.local
        /\ store = table_call.before.store
        /\ manifest = table_call.before.manifest
        /\ table_call.deleted = {}
        /\ ~table_call.launched
        /\ ~table_call.uploaded
        /\ ~table_call.waited

\* a dry-run of extract_table returned where the scratch directory was missing, objects
\* lay under the CSV prefix without the sentinel, and an earlier manifest was in place
C17_Witness ==
    /\ dry_run
    /\ ReturnedSuccessfully
    /\ ~table_call.before.local.directory
    /\ ListObjectsForPrefix(table_call.before.store, CsvPrefix) # {}
    /\ SuccessKey(CsvPrefix) \notin table_call.before.store
    /\ table_call.before.manifest = {EarlierManifest}

\* the relations in the failure list of task t
FailureList(t) == {tasks[t].failed[k] : k \in 1..Len(tasks[t].failed)}

\* C18: in extract_source only errors descending from ETLRuntime are caught: any other
\* exception of extract_table propagates out of extract_source at once, whatever
\* keep_going and is_required are, without adding the source to failed_sources or the
\* relation to the failure list, and no later relation of the source is attempted
C18_OtherExceptionsPropagate ==
    \A t \in Tasks : \A k \in 1..Len(tasks[t].outcomes) :
        tasks[t].outcomes[k] = OtherException =>
            /\ StoppedAt(t, k)
            /\ tasks[t].exception = OtherException
            /\ tasks[t].relations[k] \notin FailureList(t)
            /\ tasks[t].source \in failed_sources => tasks[t].source \in SourcesWithFailure

\* with keep_going, extract_table raised another exception for the second of three
\* relations of a source, which is not required: the task ended with it, the third
\* relation was not attempted, and failed_sources stayed empty
C18_Witness ==
    /\ keep_going
    /\ failed_sources = {}
    /\ \E t \in Tasks :
        /\ Len(tasks[t].relations) = 3
        /\ tasks[t].outcomes = <<"ok", OtherException>>
        /\ is_required[tasks[t].relations[2]] = "False"
        /\ tasks[t].state = "finished"
        /\ tasks[t].exception = OtherException
        /\ tasks[t].failed = <<>>

(***************************************************************************)
(* The required state of the relations                                     *)
(***************************************************************************)
\* C19: reading is_required of a relation before the selector has run fails with the
\* RuntimeError that reports the unknown state; once set_required_relations has
\* returned for a collection, reading is_required succeeds for every relation of it
C19_RequiredStateReadable ==
    /\ selection = NotCalled =>
          \A a \in Positions : IsRequiredProperty(is_required[a]) = RuntimeErrorKind
    /\ selection.status = "returned" =>
          \A a \in Positions : IsRequiredProperty(is_required[a]) \in {"True", "False"}

\* set_required_relations returned for three relations, one selected, one it depends
\* on and one neither: the reads give True, True and False
C19_Witness ==
    /\ selection.status = "returned"
    /\ Len(descriptions) = 3
    /\ selection.selector = {descriptions[1].identifier}
    /\ DeclaredDependency(1, 2)
    /\ [a \in Positions |-> IsRequiredProperty(is_required[a])] = <<"True", "True", "False">>

(***************************************************************************)
(* The cost of finding a cycle                                             *)
(***************************************************************************)
NrTables == Len(descriptions)

\* C20 as stated: for an input of N relations holding a dependency cycle of length 2
\* or more, order_by_dependencies raises CyclicDependency after at most 2*N pops from
\* the priority queue
C20_RaisesWithinTwoN ==
    (ordering # NotCalled /\ HasCycle) =>
        /\ ordering.raised = CyclicDependencyError
        /\ ordering.pops <= 2 * NrTables

\* C20 amended: it raises CyclicDependency after at most 2*N*N + 1 pops
C20_RaisesWithinTwoNSquared ==
    (ordering # NotCalled /\ HasCycle) =>
        /\ ordering.raised = CyclicDependencyError
        /\ ordering.pops <= 2 * NrTables * NrTables + 1

\* two relations depending on each other made order_by_dependencies raise at its
\* ninth pop
C20_Witness ==
    /\ ordering # NotCalled
    /\ NrTables = 2
    /\ DeclaredDependency(1, 2) /\ DeclaredDependency(2, 1)
    /\ ordering.raised = CyclicDependencyError
    /\ ordering.pops = 2 * NrTables * NrTables + 1

(***************************************************************************)
(* Relations free of dependencies                                          *)
(***************************************************************************)
\* order_by_dependencies was the last call made on the descriptions
JustOrdered == ordering # NotCalled /\ selection = NotCalled

\* the dependencies of relation a that phase 1 leaves to be resolved
ResolvedDependencies(a) == WorkingDependencies(descriptions, a)

\* C21 as stated: in the list order_by_dependencies returns, no relation that has at
\* least one resolved dependency appears before a relation that has none
C21_DependencyFreeFirst ==
    (JustOrdered /\ Returned) =>
        \A a, b \in Positions :
            (ResolvedDependencies(a) # {} /\ ResolvedDependencies(b) = {}) =>
                PlaceOf(b) < PlaceOf(a)

\* C21 amended: the first relation of the list has no resolved dependency, and a
\* relation without resolved dependencies appears before every relation that follows it
\* in the input
C21_DependencyFreeBeforeLater ==
    (JustOrdered /\ Returned) =>
        /\ Len(ordering.result) > 0 => ResolvedDependencies(ordering.result[1]) = {}
        /\ \A a, b \in Positions :
              (ResolvedDependencies(b) = {} /\ b < a) => PlaceOf(b) < PlaceOf(a)

\* a list was returned in which a relation with a resolved dependency comes before a
\* relation without any that follows it in the input
C21_Witness ==
    /\ JustOrdered
    /\ Returned
    /\ \E a, b, c \in Positions :
        /\ b < a /\ a < c
        /\ ResolvedDependencies(b) = {} /\ ResolvedDependencies(c) = {}
        /\ ResolvedDependencies(a) = {descriptions[b].identifier}
        /\ PlaceOf(b) < PlaceOf(a) /\ PlaceOf(a) < PlaceOf(c)

(***************************************************************************)
(* Properties of get_columns_with_casts                                    *)
(***************************************************************************)
ColumnsReturned == field_call.op = "get_columns_with_casts"

\* the columns of the table design of the relation, and the entries returned for them
DesignColumns == (CHOOSE design \in table_design[field_call.relation] : TRUE).columns
ReturnedColumns == CHOOSE entries \in field_call.result : TRUE

\* the places of the columns that are not skipped
NonSkipped == {k \in 1..Len(DesignColumns) : DesignColumns[k].skipped # {TRUE}}

\* the entry expected for a column: an absent or empty expression is no expression
ExpectedEntry(column) ==
    IF column.expression \notin {{}, {<<>>}}
    THEN (CHOOSE expression \in column.expression : TRUE)
             \o <<" ", "A", "S", " ", "\"">> \o column.name \o <<"\"">>
    ELSE <<"\"">> \o column.name \o <<"\"">>

\* C22: get_columns_with_casts returns one entry per column of the table design that is
\* not skipped, in the order of the design, and none for a skipped column; the entry is
\* '<expression> AS "<name>"' for a column with an expression and '"<name>"' otherwise
C22_ColumnsWithCasts ==
    ColumnsReturned =>
        /\ Len(ReturnedColumns) = Cardinality(NonSkipped)
        /\ \E place \in [1..Len(ReturnedColumns) -> NonSkipped] :
            /\ \A j, k \in 1..Len(ReturnedColumns) : j < k => place[j] < place[k]
            /\ \A k \in 1..Len(ReturnedColumns) :
                  ReturnedColumns[k] = ExpectedEntry(DesignColumns[place[k]])

\* the call returned two entries for a design of three columns: one with an expression,
\* a skipped one, and one with an empty expression
C22_Witness ==
    /\ ColumnsReturned
    /\ Len(DesignColumns) = 3
    /\ NonSkipped = {1, 3}
    /\ DesignColumns[1].expression = {<<"e">>}
    /\ DesignColumns[2].expression = {<<"e">>}
    /\ DesignColumns[3].expression = {<<>>}
    /\ DesignColumns[1].name # DesignColumns[3].name
    /\ Len(ReturnedColumns) = 2

(***************************************************************************)
(* Properties of the lazily loaded fields                                  *)
(***************************************************************************)
\* once _table_design of a relation has a value, a step leaves it as it is
TableDesignKept(i) == table_design[i] # {} => table_design'[i] = table_design[i]

\* once _query_stmt of a relation has a value, a step leaves it as it is
QueryStmtKept(i) == query_stmt[i] # {} => query_stmt'[i] = query_stmt[i]

\* C27 as stated: each of table_design, query_stmt and is_required becomes set exactly
\* once: once it has a value, no later operation, set_required_relations included,
\* changes it
C27_FieldsSetOnce ==
    [][\A i \in Positions :
          /\ TableDesignKept(i)
          /\ QueryStmtKept(i)
          /\ is_required[i] # None => is_required'[i] = is_required[i]]_vars

\* C27 amended: table_design and query_stmt keep the value they were first given,
\* whatever happens to the files; is_required, once it has a value, is never unknown
\* again
C27_LoadedFieldsSetOnce ==
    [][\A i \in Positions :
          /\ TableDesignKept(i)
          /\ QueryStmtKept(i)
          /\ is_required[i] # None => is_required'[i] # None]_vars

\* the query statement and the table design of a relation whose required state is known
\* are those loaded before its files were rewritten
C27_Witness ==
    \E i \in Positions :
        /\ field_call.op = "query_stmt" /\ field_call.relation = i
        /\ field_call.result = {<<"s">>}
        /\ query_stmt[i] = {<<"s">>}
        /\ sql_files[i] = {SqlRewritten}
        /\ table_design[i] = {LoadTableDesign(descriptions[i], ColumnsAsDiscovered)}
        /\ design_files[i] = ColumnsRewritten
        /\ is_required[i] # None

(***************************************************************************)
(* Properties of one call of extract_source                                *)
(***************************************************************************)
\* the calls of extract_table made by a task are for the first relations of its list, in
\* the order of the list
CallsArePrefix(task) ==
    /\ Len(task.calls) <= Len(task.relations)
    /\ \A k \in 1..Len(task.calls) : task.calls[k] = task.relations[k]

\* at most one call of extract_table of a task has not ended, and a call begins only
\* after the one before has ended
OneCallAtATime(task) ==
    /\ Len(task.calls) = Len(task.outcomes) + (IF task.in_flight THEN 1 ELSE 0)
    /\ \A j, k \in 1..Len(task.calls) : j # k => task.calls[j] # task.calls[k]

\* C23: within one extract_source call, extract_table is invoked on the relations in the
\* order of the list received, each at most once and one at a time; the relations
\* attempted are a prefix of the list, a proper one only when the call ended with an
\* exception
C23_AttemptsArePrefix ==
    \A t \in Tasks :
        /\ CallsArePrefix(tasks[t])
        /\ OneCallAtATime(tasks[t])
        /\ (tasks[t].state = "finished" /\ Len(tasks[t].calls) < Len(tasks[t].relations))
               => tasks[t].exception # None

\* one task stopped with an exception after the first of its relations while another
\* one went through its list, recording a failure
C23_Witness ==
    \E t, u \in Tasks :
        /\ tasks[t].state = "finished" /\ tasks[t].exception = None
        /\ tasks[t].calls = tasks[t].relations
        /\ tasks[t].outcomes[Len(tasks[t].outcomes)] = ETLRuntimeError
        /\ tasks[u].state = "finished" /\ tasks[u].exception # None
        /\ Len(tasks[u].calls) = 1 /\ Len(tasks[u].relations) > 1

(***************************************************************************)
(* Properties of the end of extract_sources                                *)
(***************************************************************************)
ExtractSourcesEnded == extraction.pc = "done"

\* the task ended as its own relations made it end: with its own exception, or after a
\* call of extract_table for every relation of its list, the failures recorded
NaturalCompletion(task) ==
    /\ task.state = "finished"
    /\ ~task.in_flight
    /\ task.exception = None =>
          /\ task.calls = task.relations
          /\ Len(task.outcomes) = Len(task.relations)
          /\ \A k \in 1..Len(task.relations) :
                task.outcomes[k] = ETLRuntimeError
                    <=> \E j \in 1..Len(task.failed) : task.failed[j] = task.relations[k]

\* C24: in fail-fast mode, once a task has raised, the other tasks are not interrupted
\* and extract_sources neither returns nor raises before every submitted task has run
\* to its natural completion
C24_TasksRunToCompletion ==
    (~keep_going /\ ExtractSourcesEnded /\ WithException(tasks) # {}) =>
        \A t \in Tasks : NaturalCompletion(tasks[t])

\* in fail-fast mode extract_sources ended after a task raised, and a task that had not
\* finished when the wait returned went through its list of two relations
C24_Witness ==
    /\ ~keep_going
    /\ ExtractSourcesEnded
    /\ \E t \in extraction.done : tasks[t].exception # None
    /\ \E u \in extraction.not_done :
          /\ tasks[u].exception = None
          /\ Len(tasks[u].relations) = 2
          /\ NaturalCompletion(tasks[u])

(***************************************************************************)
(* Properties of failed_sources                                            *)
(***************************************************************************)
\* the sources for which a call of extract_table raised an ETLRuntimeError
SourcesWithETLRuntimeError ==
    {tasks[t].source :
        t \in {u \in Tasks : \E k \in 1..Len(tasks[u].outcomes) :
                                tasks[u].outcomes[k] = ETLRuntimeError}}

\* C25: under every interleaving of the tasks, when extract_sources returns or raises,
\* failed_sources is exactly the set of the sources for which a call of extract_table
\* raised an ETLRuntimeError during this call of extract_sources
C25_FailedSourcesExact ==
    ExtractSourcesEnded => failed_sources = SourcesWithETLRuntimeError

\* extract_sources ended with both sources failed, their tasks having run side by side
C25_Witness ==
    /\ ExtractSourcesEnded
    /\ failed_sources = Schemas
    /\ \A t \in Tasks : Len(tasks[t].calls) = Len(tasks[t].relations)
    /\ Len(tasks) = 3

(***************************************************************************)
(* Properties of the steps of extract_table                                *)
(***************************************************************************)
\* the steps of extract_table after the options file is written
ExtractTableSteps == <<"_delete_directory_before_write", "run_sqoop", "write_manifest_file">>

\* the objects found under <prefix>/<csv-path> when the call began
ExistingCsvObjects == ListObjectsForPrefix(table_call.before.store, CsvPrefix)

SqoopFailed == table_call.returncodes # <<>> /\ table_call.returncodes[1] # 0

\* C26: outside a dry-run, extract_table of the Sqoop strategy first deletes all existing
\* objects under <prefix>/<csv-path>, then runs the subprocess, then writes the manifest;
\* if the subprocess returns a non-zero exit code the call fails with SqoopExecution and
\* the manifest step is never invoked
C26_StepsInOrder ==
    (~dry_run /\ table_call.pc # "none") =>
        /\ Len(table_call.steps) <= Len(ExtractTableSteps)
        /\ \A k \in 1..Len(table_call.steps) : table_call.steps[k] = ExtractTableSteps[k]
        /\ Len(table_call.steps) >= 1 => table_call.deleted = ExistingCsvObjects
        /\ Len(table_call.steps) = 1 => ListObjectsForPrefix(store, CsvPrefix) = {}
        /\ table_call.launched <=> Len(table_call.steps) >= 2
        /\ table_call.manifest_step <=> Len(table_call.steps) = 3
        /\ SqoopFailed =>
              /\ table_call.pc = "done"
              /\ table_call.raised = SqoopExecutionError
              /\ Len(table_call.steps) = 2

\* the subprocess failed after the two objects found under the prefix had been deleted
C26_Witness ==
    /\ ~dry_run
    /\ SqoopFailed
    /\ Cardinality(ExistingCsvObjects) = 2
    /\ table_call.deleted = ExistingCsvObjects
    /\ table_call.raised = SqoopExecutionError
    /\ ~table_call.manifest_step

(***************************************************************************)
(* Dependencies on relations outside of the input                          *)
(***************************************************************************)
\* the input with every dependency that is neither an input relation nor in pg_catalog
\* removed from the dependency sets
WithoutUnknowns(ds) ==
    [i \in 1..Len(ds) |->
        [ds[i] EXCEPT !.dependencies =
            {d \in @ : d \in KnownTables(ds) \/ StartsWithPgCatalog(d)}]]

\* C28: dependencies on identifiers that are neither input relations nor in pg_catalog
\* never make order_by_dependencies fail and impose no ordering constraint: the outcome
\* is the one for the same input without these dependencies
C28_UnknownsIgnored ==
    JustOrdered =>
        ordering = OrderingOutcome(OrderByDependencies(WithoutUnknowns(descriptions)))

\* a list was returned for an input in which a relation depends on an unknown relation
\* and on a relation given after it
C28_Witness ==
    /\ JustOrdered
    /\ Returned
    /\ \E a, b \in Positions :
        /\ a < b
        /\ descriptions[a].dependencies = {UnknownId, descriptions[b].identifier}
        /\ PlaceOf(b) < PlaceOf(a)
    /\ WithoutUnknowns(descriptions) # descriptions

(***************************************************************************)
(* The working dependencies and the threshold of the loop                  *)
(***************************************************************************)
\* after phase 1, a waits for b
WorkingDependency(a, b) ==
    descriptions[b].identifier \in WorkingDependencies(descriptions, a)

\* the relations reachable from those of S along working dependencies, S included
RECURSIVE WorkingClosure(_)
GrowWorkingClosure(S, next) == IF next \subseteq S THEN S ELSE WorkingClosure(S \cup next)
WorkingClosure(S) ==
    GrowWorkingClosure(S, {b \in Positions : \E a \in S : WorkingDependency(a, b)})

\* no relation waits, directly or transitively, for itself
WorkingGraphAcyclic ==
    \A a \in Positions : a \notin WorkingClosure({b \in Positions : WorkingDependency(a, b)})

\* C29: for every input whose working dependency graph after phase 1 is acyclic, the
\* loop of phase 2 ends with every relation given an order and never raises
\* CyclicDependency, that is, no relation is popped with a priority above 2*N
C29_AcyclicNeverRaises ==
    (JustOrdered /\ WorkingGraphAcyclic) =>
        /\ Returned
        /\ ordering.raised = None
        /\ Len(ordering.result) = NrTables
        /\ \A a \in Positions : \E k \in 1..Len(ordering.result) : ordering.result[k] = a

\* a list was returned for an acyclic input of MaxRel relations, some of which were put
\* back into the queue: it took three pops more than there are relations
C29_Witness ==
    /\ JustOrdered
    /\ Returned
    /\ WorkingGraphAcyclic
    /\ NrTables = MaxRel
    /\ ordering.pops >= NrTables + 3

\* a relation without a pg_catalog dependency depends, directly or transitively, on a
\* relation with one
DependsOnCatalogDependent ==
    \E a, c \in Positions :
        /\ PgInternalDependencies(descriptions[a]) = {}
        /\ PgInternalDependencies(descriptions[c]) # {}
        /\ TransitiveDependency(a, c)

\* C30: if an input relation without a pg_catalog dependency depends, directly or
\* transitively, on an input relation with one, order_by_dependencies fails with
\* CyclicDependency, also when the declared dependencies among the input relations are
\* acyclic
C30_CatalogDependentBelowRaises ==
    (JustOrdered /\ DependsOnCatalogDependent) =>
        /\ ordering.status = "raised"
        /\ ordering.raised = CyclicDependencyError

\* the call failed on an input whose declared dependencies hold no cycle: one relation
\* depends on another one that depends on pg_catalog
C30_Witness ==
    /\ JustOrdered
    /\ ordering.status = "raised"
    /\ DependsOnCatalogDependent
    /\ ~HasCycle
    /\ \A a \in Positions : ~DeclaredDependency(a, a)

(***************************************************************************)
(* Extraction of relations whose required state was never set              *)
(***************************************************************************)
\* set_required_relations never ran for the relations of the extractor
RequiredStateNeverSet == \A i \in 1..Len(descriptions) : is_required[i] = None

\* the calls of extract_table of a task that ended with an ETLRuntimeError
ETLRuntimeFailures(task) ==
    {k \in 1..Len(task.outcomes) : task.outcomes[k] = ETLRuntimeError}

\* C31: if the required state was never set for the relations of an extractor, the
\* first ETLRuntime failure of extract_table in a task adds the source to failed_sources
\* and then ends the task with the error raised by reading is_required, also when
\* keep_going is true; the remaining relations of the task are not attempted
C31_UnknownRequiredStateEndsTask ==
    RequiredStateNeverSet =>
        \A t \in Tasks : \A k \in ETLRuntimeFailures(tasks[t]) :
            /\ tasks[t].source \in failed_sources
            /\ tasks[t].state = "finished"
            /\ tasks[t].exception = RuntimeErrorKind
            /\ Len(tasks[t].calls) = k
            /\ Len(tasks[t].outcomes) = k

\* with keep_going set, a task of three relations ended with the error of is_required at
\* the failure of its second relation, its source recorded as failed
C31_Witness ==
    /\ RequiredStateNeverSet
    /\ keep_going
    /\ \E t \in Tasks :
        /\ Len(tasks[t].relations) = 3
        /\ tasks[t].outcomes = <<"ok", ETLRuntimeError>>
        /\ tasks[t].calls = SubSeq(tasks[t].relations, 1, 2)
        /\ tasks[t].exception = RuntimeErrorKind
        /\ tasks[t].source \in failed_sources

(***************************************************************************)
(* What a failed call of extract_table leaves behind                       *)
(***************************************************************************)
ExtractTableFailed == table_call.pc = "done" /\ table_call.raised # None

\* the only file that the manifest left by an earlier extraction lists
EarlierDataFile == Join(CsvPrefix, <<"p", "a", "r", "t", "-", "1", ".", "g", "z">>)

\* C32: when extract_table fails outside a dry-run, because the subprocess exits
\* non-zero or because the manifest step fails, nothing is restored: every object that
\* was under <prefix>/<csv-path> before the call has been deleted, and the manifest at
\* the relation's manifest path is as it was before the call
C32_NoRestoreAfterFailure ==
    (~dry_run /\ ExtractTableFailed) =>
        /\ table_call.raised \in {SqoopExecutionError, MissingCsvFilesError}
        /\ table_call.deleted = ExistingCsvObjects
        /\ ~table_call.uploaded
        /\ manifest = table_call.before.manifest

\* the subprocess failed: the earlier manifest is still in place and lists a data file
\* that the call deleted and that is gone from the bucket
C32_Witness ==
    /\ ~dry_run
    /\ ExtractTableFailed
    /\ SqoopFailed
    /\ table_call.before.manifest = {EarlierManifest}
    /\ manifest = {EarlierManifest}
    /\ EarlierManifest.entries[1].url = S3Url(BucketName, EarlierDataFile)
    /\ EarlierDataFile \in table_call.before.store
    /\ EarlierDataFile \in table_call.deleted
    /\ EarlierDataFile \notin store

====
